---- MODULE Spec2Model ----
(***************************************************************************)
(* web3-rust-cli: the Solana price checker of src/main.rs.                 *)
(*                                                                         *)
(* One run of the program is modelled: main prints its banner, calls       *)
(* fetch_sol_price, which builds the HTTP client and tries the three       *)
(* adapters in the order of the source text, and main prints the outcome   *)
(* and returns to the Rust runtime, which turns main's Result into the     *)
(* exit code.  The network (what each endpoint would answer) and the       *)
(* process environment are inputs, drawn in Init.                          *)
(*                                                                         *)
(* f64 values are modelled as [k, m]: k = "fin" with m the value in        *)
(* thousandths of a dollar, or k in {"nan", "inf", "ninf"} with m = 0.     *)
(* Strings on the wire are sequences of one-character strings.             *)
(***************************************************************************)
EXTENDS Integers, Sequences, FiniteSets, TLC

VARIABLES env, net, pc, cur, client, requests, res, ret, mainRet, log, exitCode

vars == <<env, net, pc, cur, client, requests, res, ret, mainRet, log, exitCode>>

(* ------------------------------ bounds --------------------------------- *)

\* Finite prices on the wire are n/8 dollars for n in -MaxUnits..MaxUnits.
MaxUnits == 1

(* ------------------------------ f64 ------------------------------------ *)

Fin(m) == [k |-> "fin", m |-> m]
NaN == [k |-> "nan", m |-> 0]
PosInf == [k |-> "inf", m |-> 0]
NegInf == [k |-> "ninf", m |-> 0]

\* x >= 0.0 on f64: false for NaN and for every negative value.
NonNegative(v) == \/ v.k = "inf"
                  \/ v.k = "fin" /\ v.m >= 0

FinVals == {n * 125 : n \in -MaxUnits..MaxUnits}

(* ------------------------------ Result --------------------------------- *)

Ok(v) == [ok |-> TRUE, val |-> v]
Err(e) == [ok |-> FALSE, err |-> e]

\* The errors the program can hold in a Box<dyn Error>.
ReqwestError(phase) == [kind |-> "Reqwest", phase |-> phase]
ApiError(src, status) == [kind |-> "ApiError", src |-> src, status |-> status]
JsonError(why) == [kind |-> "Json", why |-> why]
PriceNotFound == [kind |-> "PriceNotFound"]
ParseFloatError == [kind |-> "ParseFloat"]
ClientBuildError == [kind |-> "ClientBuild"]
AllFailed == [kind |-> "AllFailed"]

(* ------------------------------ strings -------------------------------- *)

DigitChars == <<"0", "1", "2", "3", "4", "5", "6", "7", "8", "9">>
IsDigit(c) == \E i \in 1..10 : DigitChars[i] = c
DigitVal(c) == (CHOOSE i \in 1..10 : DigitChars[i] = c) - 1

\* ASCII lower-casing of the letters that matter to "inf", "infinity", "nan".
LowerChar(c) == CASE c = "I" -> "i" [] c = "N" -> "n" [] c = "F" -> "f"
                  [] c = "A" -> "a" [] c = "T" -> "t" [] c = "Y" -> "y"
                  [] OTHER -> c
Lower(s) == [i \in 1..Len(s) |-> LowerChar(s[i])]

RECURSIVE DigitsValue(_)
DigitsValue(s) == IF s = <<>> THEN 0
                  ELSE 10 * DigitsValue(SubSeq(s, 1, Len(s) - 1)) + DigitVal(s[Len(s)])

AllDigits(s) == \A i \in 1..Len(s) : IsDigit(s[i])

\* Fraction digits as thousandths (the wire strings carry at most three).
FracMilli(f) == IF Len(f) = 0 THEN 0
                ELSE IF Len(f) = 1 THEN 100 * DigitsValue(f)
                ELSE IF Len(f) = 2 THEN 10 * DigitsValue(f)
                ELSE DigitsValue(SubSeq(f, 1, 3))

\* str::parse::<f64>: Sign? ('inf' | 'infinity' | 'nan' | Number), the words
\* case-insensitive, Number = Digit+ | Digit+ '.' Digit* | Digit* '.' Digit+.
\* No trimming; the empty string, a lone sign and a lone '.' are errors.
\* (Exponents are not modelled: no wire string of the model holds an 'e'.)
ParseF64(s) ==
  LET signed == Len(s) > 0 /\ s[1] \in {"+", "-"}
      neg == Len(s) > 0 /\ s[1] = "-"
      body == IF signed THEN Tail(s) ELSE s
      word == Lower(body)
      dots == {i \in 1..Len(body) : body[i] = "."}
      dot == IF dots = {} THEN Len(body) + 1 ELSE CHOOSE i \in dots : TRUE
      ip == SubSeq(body, 1, dot - 1)
      fp == SubSeq(body, dot + 1, Len(body))
      mag == 1000 * DigitsValue(ip) + FracMilli(fp)
  IN IF word \in {<<"i", "n", "f">>, <<"i", "n", "f", "i", "n", "i", "t", "y">>}
       THEN Ok(IF neg THEN NegInf ELSE PosInf)
     ELSE IF word = <<"n", "a", "n">> THEN Ok(NaN)
     ELSE IF /\ Cardinality(dots) <= 1
             /\ AllDigits(ip) /\ AllDigits(fp)
             /\ Len(ip) + Len(fp) >= 1
       THEN Ok(Fin(IF neg THEN 0 - mag ELSE mag))
     ELSE Err(ParseFloatError)

\* Decimal text of a value in thousandths, as an endpoint writes it.
RECURSIVE NatText(_)
NatText(n) == IF n < 10 THEN <<DigitChars[n + 1]>>
              ELSE NatText(n \div 10) \o <<DigitChars[(n % 10) + 1]>>

MilliText(m) ==
  LET a == IF m < 0 THEN 0 - m ELSE m
      f == a % 1000
  IN (IF m < 0 THEN <<"-">> ELSE <<>>) \o NatText(a \div 1000) \o <<".">>
       \o <<DigitChars[(f \div 100) + 1], DigitChars[((f \div 10) % 10) + 1],
            DigitChars[(f % 10) + 1]>>

\* format!("{:.2}", price): the value in cents, exactly rounded, ties to even
\* (every modelled value is a multiple of 1/8, so a tie is an exact tie);
\* NaN and the infinities print as words.
RoundCents(a) == LET q == a \div 10
                     r == a % 10
                 IN IF r > 5 \/ (r = 5 /\ q % 2 = 1) THEN q + 1 ELSE q

Format2(v) == IF v.k = "fin"
                THEN [k |-> "fin",
                      c |-> IF v.m < 0 THEN 0 - RoundCents(0 - v.m) ELSE RoundCents(v.m)]
                ELSE [k |-> v.k, c |-> 0]

(* ------------------------------ JSON ----------------------------------- *)

\* A response body: text that is not JSON, or a JSON value.
NotJson == [t |-> "notjson"]
JNum(m) == [t |-> "num", m |-> m]
JStr(s) == [t |-> "str", s |-> s]
JObj(o) == [t |-> "obj", o |-> o]
NoFields == [key \in {} |-> NotJson]
Field(key, v) == [x \in {key} |-> v]

\* serde_json::from_str::<CoinGeckoPrices>: struct { solana: HashMap<String, f64> }.
\* The field must be present and a map all of whose values are numbers.
from_str_CoinGeckoPrices(b) ==
  IF b.t = "notjson" THEN Err(JsonError("syntax"))
  ELSE IF b.t # "obj" THEN Err(JsonError("invalid type"))
  ELSE IF "solana" \notin DOMAIN b.o THEN Err(JsonError("missing field"))
  ELSE LET mp == b.o["solana"]
       IN IF mp.t # "obj" THEN Err(JsonError("invalid type"))
          ELSE IF \E key \in DOMAIN mp.o : mp.o[key].t # "num"
            THEN Err(JsonError("invalid type"))
          ELSE Ok([solana |-> [key \in DOMAIN mp.o |-> Fin(mp.o[key].m)]])

\* struct CoinCapAsset { price_usd: String }, renamed to camelCase on the wire.
from_value_CoinCapAsset(v) ==
  IF v.t # "obj" THEN Err(JsonError("invalid type"))
  ELSE IF "priceUsd" \notin DOMAIN v.o THEN Err(JsonError("missing field"))
  ELSE IF v.o["priceUsd"].t # "str" THEN Err(JsonError("invalid type"))
  ELSE Ok([price_usd |-> v.o["priceUsd"].s])

\* serde_json::from_str::<CoinCapResponse>: struct { data: CoinCapAsset }.
from_str_CoinCapResponse(b) ==
  IF b.t = "notjson" THEN Err(JsonError("syntax"))
  ELSE IF b.t # "obj" THEN Err(JsonError("invalid type"))
  ELSE IF "data" \notin DOMAIN b.o THEN Err(JsonError("missing field"))
  ELSE LET a == from_value_CoinCapAsset(b.o["data"])
       IN IF a.ok THEN Ok([data |-> a.val]) ELSE a

\* serde_json::from_str::<BinancePrice>: struct { price: String }.
from_str_BinancePrice(b) ==
  IF b.t = "notjson" THEN Err(JsonError("syntax"))
  ELSE IF b.t # "obj" THEN Err(JsonError("invalid type"))
  ELSE IF "price" \notin DOMAIN b.o THEN Err(JsonError("missing field"))
  ELSE IF b.o["price"].t # "str" THEN Err(JsonError("invalid type"))
  ELSE Ok([price |-> b.o["price"].s])

(* ------------------------------ environment ---------------------------- *)

\* The process environment's entry for COINGECKO_API_KEY: absent, or present
\* with a value that is or is not valid Unicode.
EnvUnset == [set |-> FALSE, unicode |-> TRUE, val |-> ""]
EnvValue(v) == [set |-> TRUE, unicode |-> TRUE, val |-> v]
EnvNotUnicode == [set |-> TRUE, unicode |-> FALSE, val |-> "\\xFF"]

\* std::env::var: Ok(value) only for a present, valid-Unicode value.
env_var(e) == IF e.set /\ e.unicode THEN Ok(e.val) ELSE Err("VarError")

(* ------------------------------ adapters ------------------------------- *)

\* StatusCode::is_success
is_success(status) == 200 <= status /\ status <= 299

\* What an endpoint does with one request: the send fails (transport error or
\* timeout), or a response with a status arrives whose body can or cannot be
\* read to the end.
NoResponse == [sent |-> FALSE, status |-> 0, readable |-> FALSE, body |-> NotJson]
Response(status, body) == [sent |-> TRUE, status |-> status, readable |-> TRUE, body |-> body]
BrokenBody(status) == [sent |-> TRUE, status |-> status, readable |-> FALSE, body |-> NotJson]

\* A URL is the sequence of the string pieces it was formatted from.
\* Mutant: the key parameter is appended whenever the variable is present,
\* whether or not its value could be read as a string.
coingecko_url_any_value(e) ==
  LET url == <<"https://api.coingecko.com/api/v3/simple/price?ids=solana&vs_currencies=usd">>
  IN IF e.set THEN url \o <<"&x_cg_demo_api_key=", e.val>> ELSE url

coingecko_url(e) ==
  LET url == <<"https://api.coingecko.com/api/v3/simple/price?ids=solana&vs_currencies=usd">>
      api_key == env_var(e)
  IN IF api_key.ok THEN url \o <<"&x_cg_demo_api_key=", api_key.val>> ELSE url

coincap_url == <<"https://api.coincap.io/v2/assets/solana">>

binance_url == <<"https://api.binance.com/api/v3/ticker/price?symbol=SOLUSDT">>

\* Mutant: a missing "usd" entry defaults to 0.0 (unwrap_or(0.0)) and a
\* missing "solana" map to an empty one (#[serde(default)]).
fetch_from_coingecko_defaulting(r) ==
  IF ~r.sent THEN Err(ReqwestError("send"))
  ELSE IF ~r.readable THEN Err(ReqwestError("body"))
  ELSE IF ~is_success(r.status) THEN Err(ApiError("CoinGecko", r.status))
  ELSE LET data == from_str_CoinGeckoPrices(r.body)
       IN IF ~data.ok
            THEN IF data.err = JsonError("missing field") THEN Ok(Fin(0)) ELSE data
          ELSE IF "usd" \notin DOMAIN data.val.solana THEN Ok(Fin(0))
          ELSE Ok(data.val.solana["usd"])

fetch_from_coingecko(r) ==
  IF ~r.sent THEN Err(ReqwestError("send"))
  ELSE IF ~r.readable THEN Err(ReqwestError("body"))
  ELSE IF ~is_success(r.status) THEN Err(ApiError("CoinGecko", r.status))
  ELSE LET data == from_str_CoinGeckoPrices(r.body)
       IN IF ~data.ok THEN data
          ELSE IF "usd" \notin DOMAIN data.val.solana THEN Err(PriceNotFound)
          ELSE Ok(data.val.solana["usd"])

fetch_from_coincap(r) ==
  IF ~r.sent THEN Err(ReqwestError("send"))
  ELSE IF ~r.readable THEN Err(ReqwestError("body"))
  ELSE IF ~is_success(r.status) THEN Err(ApiError("CoinCap", r.status))
  ELSE LET data == from_str_CoinCapResponse(r.body)
       IN IF ~data.ok THEN data
          ELSE ParseF64(data.val.data.price_usd)

fetch_from_binance(r) ==
  IF ~r.sent THEN Err(ReqwestError("send"))
  ELSE IF ~r.readable THEN Err(ReqwestError("body"))
  ELSE IF ~is_success(r.status) THEN Err(ApiError("Binance", r.status))
  ELSE LET data == from_str_BinancePrice(r.body)
       IN IF ~data.ok THEN data
          ELSE ParseF64(data.val.price)

\* The three adapters in the order fetch_sol_price calls them.
Order == <<"CoinGecko", "CoinCap", "Binance">>
Sources == {Order[i] : i \in 1..Len(Order)}

Adapter(s, r) == CASE s = "CoinGecko" -> fetch_from_coingecko(r)
                   [] s = "CoinCap" -> fetch_from_coincap(r)
                   [] s = "Binance" -> fetch_from_binance(r)

UrlOf(s, e) == CASE s = "CoinGecko" -> coingecko_url(e)
                 [] s = "CoinCap" -> coincap_url
                 [] s = "Binance" -> binance_url

(* ------------------------------ inputs --------------------------------- *)

Statuses == {200, 429}

WireStrings == {MilliText(m) : m \in FinVals}
                 \cup {<<>>, <<"a", "b", "c">>, <<"N", "a", "N">>, <<"i", "n", "f">>,
                       <<"-", "i", "n", "f">>}

CoinGeckoBodies ==
  {NotJson, JObj(NoFields), JObj(Field("solana", JObj(NoFields))),
   JObj(Field("solana", JObj(Field("eur", JNum(125))))),
   JObj(Field("solana", JObj(Field("usd", JStr(MilliText(125))))))}
    \cup {JObj(Field("solana", JObj(Field("usd", JNum(m))))) : m \in FinVals}

CoinCapBodies ==
  {NotJson, JObj(NoFields), JObj(Field("data", JObj(NoFields))),
   JObj(Field("data", JObj(Field("priceUsd", JNum(125)))))}
    \cup {JObj(Field("data", JObj(Field("priceUsd", JStr(s))))) : s \in WireStrings}

BinanceBodies ==
  {NotJson, JObj(NoFields), JObj(Field("price", JNum(125)))}
    \cup {JObj(Field("price", JStr(s))) : s \in WireStrings}

Bodies(s) == CASE s = "CoinGecko" -> CoinGeckoBodies
               [] s = "CoinCap" -> CoinCapBodies
               [] s = "Binance" -> BinanceBodies

\* A body that would be a price had the status been a success.
GoodBody(s) == CASE s = "CoinGecko" -> JObj(Field("solana", JObj(Field("usd", JNum(125)))))
                 [] s = "CoinCap" -> JObj(Field("data", JObj(Field("priceUsd", JStr(MilliText(125))))))
                 [] s = "Binance" -> JObj(Field("price", JStr(MilliText(125))))

\* Every body with a success status; with another status, a body that is not
\* JSON and one that would have been a price.
Responses(s) ==
  {NoResponse}
    \cup {BrokenBody(st) : st \in Statuses}
    \cup {Response(st, b) : st \in {x \in Statuses : is_success(x)}, b \in Bodies(s)}
    \cup {Response(st, b) : st \in {x \in Statuses : ~is_success(x)}, b \in {NotJson, GoodBody(s)}}

EnvStates == {EnvUnset, EnvValue(""), EnvValue("CG-demo-key"), EnvNotUnicode}

(* ------------------------------ console -------------------------------- *)

\* One line (or block) written to stdout ("out") or stderr ("err").
Banner == [ch |-> "out", ev |-> "banner"]
Rule(ch) == [ch |-> ch, ev |-> "rule"]
Trying(s) == [ch |-> "out", ev |-> "trying", src |-> s]
Success(s) == [ch |-> "out", ev |-> "success", src |-> s]
Failed(s, e) == [ch |-> "err", ev |-> "failed", src |-> s, err |-> e]
PriceLine(v) == [ch |-> "out", ev |-> "price", text |-> Format2(v)]
ErrorLine(e) == [ch |-> "err", ev |-> "error", err |-> e]
Tip == [ch |-> "err", ev |-> "tip"]
\* The runtime's report of an Err returned by main: "Error: {:?}".
Report(e) == [ch |-> "err", ev |-> "report", err |-> e]

(* ------------------------------ the run -------------------------------- *)

Unset == [ok |-> FALSE, err |-> [kind |-> "Unset"]]

Init ==
  /\ env \in EnvStates
  /\ net \in [Sources -> UNION {Responses(s) : s \in Sources}]
  /\ \A s \in Sources : net[s] \in Responses(s)
  /\ pc = "main"
  /\ cur = 1
  /\ client = "none"
  /\ requests = <<>>
  /\ res = Unset
  /\ ret = Unset
  /\ mainRet = Unset
  /\ log = <<>>
  /\ exitCode = -1

\* main: the banner, then the call of fetch_sol_price.
MainStart ==
  /\ pc = "main"
  /\ log' = log \o <<Banner, Rule("out")>>
  /\ pc' = "build"
  /\ UNCHANGED <<env, net, cur, client, requests, res, ret, mainRet, exitCode>>

\* Mutant: the build error is dropped and the run goes on without a client.
BuildClient_unchecked ==
  /\ pc = "build"
  /\ \E built \in BOOLEAN :
       client' = (IF built THEN "built" ELSE client)
  /\ pc' = "trying"
  /\ UNCHANGED <<env, net, cur, requests, res, ret, mainRet, log, exitCode>>

\* fetch_sol_price: Client::builder()...build()?
BuildClient ==
  /\ pc = "build"
  /\ \E built \in BOOLEAN :
       IF built
         THEN client' = "built" /\ pc' = "trying" /\ ret' = ret
         ELSE client' = client /\ pc' = "main_match" /\ ret' = Err(ClientBuildError)
  /\ UNCHANGED <<env, net, cur, requests, res, mainRet, log, exitCode>>

\* println!("Trying ... API...")
AnnounceTry ==
  /\ pc = "trying"
  /\ log' = Append(log, Trying(Order[cur]))
  /\ pc' = "call"
  /\ UNCHANGED <<env, net, cur, client, requests, res, ret, mainRet, exitCode>>

\* fetch_from_coingecko / fetch_from_coincap / fetch_from_binance (&client):
\* one GET is sent and the adapter's Result comes back.
CallAdapter ==
  /\ pc = "call"
  /\ LET s == Order[cur]
     IN /\ requests' = Append(requests, [to |-> s, url |-> UrlOf(s, env)])
        /\ res' = Adapter(s, net[s])
  /\ pc' = "match"
  /\ UNCHANGED <<env, net, cur, client, ret, mainRet, log, exitCode>>

\* Mutant: the success arm lacks its return and falls through to the next
\* source; the last success, if any, is what is returned at the end.
MatchOk_no_return ==
  /\ pc = "match"
  /\ res.ok
  /\ log' = Append(log, Success(Order[cur]))
  /\ IF cur < Len(Order)
       THEN cur' = cur + 1 /\ pc' = "trying" /\ ret' = ret
       ELSE cur' = cur /\ pc' = "main_match" /\ ret' = Ok(res.val)
  /\ UNCHANGED <<env, net, client, requests, res, mainRet, exitCode>>

\* Ok(price) => { println!("... Success"); return Ok(price); }
MatchOk ==
  /\ pc = "match"
  /\ res.ok
  /\ log' = Append(log, Success(Order[cur]))
  /\ ret' = Ok(res.val)
  /\ pc' = "main_match"
  /\ UNCHANGED <<env, net, cur, client, requests, res, mainRet, exitCode>>

\* Mutant: the adapter's error is propagated (fetch_from_x(&client)?).
MatchErr_propagates ==
  /\ pc = "match"
  /\ ~res.ok
  /\ ret' = Err(res.err)
  /\ pc' = "main_match"
  /\ UNCHANGED <<env, net, cur, client, requests, res, mainRet, log, exitCode>>

\* Err(e) => { eprintln!("... failed: {}", e); } and on to the next source.
MatchErr ==
  /\ pc = "match"
  /\ ~res.ok
  /\ log' = Append(log, Failed(Order[cur], res.err))
  /\ IF cur < Len(Order)
       THEN cur' = cur + 1 /\ pc' = "trying"
       ELSE cur' = cur /\ pc' = "exhausted"
  /\ UNCHANGED <<env, net, client, requests, res, ret, mainRet, exitCode>>

\* Err("All API sources failed. ...".into())
Exhausted ==
  /\ pc = "exhausted"
  /\ ret' = Err(AllFailed)
  /\ pc' = "main_match"
  /\ UNCHANGED <<env, net, cur, client, requests, res, mainRet, log, exitCode>>

\* Mutant: the price line is also printed before the framed block.
MainOk_prints_twice ==
  /\ pc = "main_match"
  /\ ret.ok
  /\ log' = log \o <<PriceLine(ret.val), Rule("out"), PriceLine(ret.val), Rule("out")>>
  /\ mainRet' = Ok("unit")
  /\ pc' = "exit"
  /\ UNCHANGED <<env, net, cur, client, requests, res, ret, exitCode>>

\* main, Ok(price) arm: the price line between two rules, then Ok(()).
MainOk ==
  /\ pc = "main_match"
  /\ ret.ok
  /\ log' = log \o <<Rule("out"), PriceLine(ret.val), Rule("out")>>
  /\ mainRet' = Ok("unit")
  /\ pc' = "exit"
  /\ UNCHANGED <<env, net, cur, client, requests, res, ret, exitCode>>

\* Mutant: the error is printed and then swallowed (Ok(()) instead of Err(e)).
MainErr_swallows ==
  /\ pc = "main_match"
  /\ ~ret.ok
  /\ log' = log \o <<Rule("err"), ErrorLine(ret.err), Rule("err"), Tip>>
  /\ mainRet' = Ok("unit")
  /\ pc' = "exit"
  /\ UNCHANGED <<env, net, cur, client, requests, res, ret, exitCode>>

\* main, Err(e) arm: the error between two rules, the tip, then Err(e).
MainErr ==
  /\ pc = "main_match"
  /\ ~ret.ok
  /\ log' = log \o <<Rule("err"), ErrorLine(ret.err), Rule("err"), Tip>>
  /\ mainRet' = Err(ret.err)
  /\ pc' = "exit"
  /\ UNCHANGED <<env, net, cur, client, requests, res, ret, exitCode>>

\* The runtime's handling of main's Result (Termination): Ok(()) exits with
\* 0; Err(e) is written to stderr as "Error: {e:?}" and the exit code is 1.
Exit ==
  /\ pc = "exit"
  /\ IF mainRet.ok
       THEN exitCode' = 0 /\ log' = log
       ELSE exitCode' = 1 /\ log' = Append(log, Report(mainRet.err))
  /\ pc' = "done"
  /\ UNCHANGED <<env, net, cur, client, requests, res, ret, mainRet>>

Next ==
  \/ MainStart
  \/ BuildClient
  \/ AnnounceTry
  \/ CallAdapter
  \/ MatchOk
  \/ MatchErr
  \/ Exhausted
  \/ MainOk
  \/ MainErr
  \/ Exit

Spec == Init /\ [][Next]_vars

(* ------------------------------ properties ----------------------------- *)

\* The priority order the specification fixes.
FixedOrder == <<"CoinGecko", "CoinCap", "Binance">>

\* The adapter of source s was called in this run (it sent its request).
Invoked(s) == \E i \in DOMAIN requests : requests[i].to = s

\* What the adapter of source s makes of this run's network.
Outcome(s) == Adapter(s, net[s])

\* The positions in FixedOrder of the sources whose adapter succeeds.
Succeeding == {i \in 1..3 : Outcome(FixedOrder[i]).ok}
FirstSucceeding == CHOOSE i \in Succeeding : \A j \in Succeeding : i <= j

\* fetch_sol_price has returned to main.
Returned == pc \in {"main_match", "exit", "done"}

EventsAt(ev) == {i \in DOMAIN log : log[i].ev = ev}

\* C1: the adapters are invoked in the order CoinGecko, CoinCap, Binance, none
\* after the first one that succeeds, and once a client exists fetch_sol_price
\* returns the price of the first adapter that succeeds.
C1_FirstSuccessWins ==
  /\ \A i \in DOMAIN requests : i <= 3 /\ requests[i].to = FixedOrder[i]
  /\ Succeeding # {} => Len(requests) <= FirstSucceeding
  /\ (Returned /\ client = "built" /\ Succeeding # {}) =>
       /\ ret = Ok(Outcome(FixedOrder[FirstSucceeding]).val)
       /\ Len(requests) = FirstSucceeding

\* CoinGecko answers 429, CoinCap succeeds, Binance would have succeeded: the
\* CoinCap price is returned and Binance was never invoked.
C1_Witness ==
  /\ pc = "done"
  /\ Outcome("CoinGecko") = Err(ApiError("CoinGecko", 429))
  /\ Outcome("CoinCap").ok
  /\ Outcome("Binance").ok
  /\ ret = Ok(Outcome("CoinCap").val)
  /\ ~Invoked("Binance")

\* C2: when all three adapters fail, fetch_sol_price returns the "all sources
\* failed" error and the exit code is non-zero; the exit code is 0 only when
\* an invoked adapter succeeded.
C2_AllFailIsFailure ==
  pc = "done" =>
    /\ (client = "built" /\ Succeeding = {}) => (ret = Err(AllFailed) /\ exitCode > 0)
    /\ exitCode = 0 => \E s \in Sources : Invoked(s) /\ Outcome(s).ok

C2_Witness ==
  /\ pc = "done"
  /\ \A s \in Sources : Invoked(s) /\ ~Outcome(s).ok
  /\ ret = Err(AllFailed)
  /\ exitCode = 1

\* C3: at most one price line is ever printed, and it shows the value of an
\* invoked adapter that succeeded; a finished run either exited with 0 having
\* printed exactly one price, or failed having printed none.
C3_OnePriceOrFailure ==
  /\ Cardinality(EventsAt("price")) <= 1
  /\ \A i \in EventsAt("price") :
       \E s \in Sources : /\ Invoked(s)
                          /\ Outcome(s).ok
                          /\ log[i].text = Format2(Outcome(s).val)
  /\ pc = "done" =>
       \/ exitCode = 0 /\ Cardinality(EventsAt("price")) = 1
       \/ exitCode > 0 /\ EventsAt("price") = {}

\* Two sources failed, Binance succeeded, and its price is the one printed.
C3_Witness ==
  /\ pc = "done"
  /\ exitCode = 0
  /\ ~Outcome("CoinGecko").ok /\ ~Outcome("CoinCap").ok
  /\ Outcome("Binance") = Ok(Fin(125))
  /\ \E i \in DOMAIN log : log[i] = PriceLine(Fin(125))

\* C4: an error fetch_sol_price returns is the exhaustion error or the client
\* setup error, never an adapter's own; and a failed adapter that has a
\* successor in the order was followed by that successor.
C4_AdapterErrorsCaught ==
  Returned =>
    /\ ~ret.ok => ret.err \in {AllFailed, ClientBuildError}
    /\ \A i \in 1..2 :
         (Invoked(FixedOrder[i]) /\ ~Outcome(FixedOrder[i]).ok) => Invoked(FixedOrder[i + 1])

\* CoinGecko fails in transport, CoinCap sends "priceUsd": "abc", and Binance
\* is tried all the same.
C4_Witness ==
  /\ pc = "done"
  /\ Outcome("CoinGecko") = Err(ReqwestError("send"))
  /\ net["CoinCap"] =
       Response(200, JObj(Field("data", JObj(Field("priceUsd", JStr(<<"a", "b", "c">>))))))
  /\ \E i \in DOMAIN log : log[i] = Failed("CoinCap", ParseFloatError)
  /\ Invoked("Binance")
  /\ ret.ok

\* C5: when the client could not be built, fetch_sol_price has returned the
\* setup error, no adapter was announced or invoked, no request was sent, and
\* the run ends with a non-zero exit code.
C5_SetupErrorIsImmediate ==
  (client = "none" /\ pc \notin {"main", "build"}) =>
    /\ ret = Err(ClientBuildError)
    /\ requests = <<>>
    /\ EventsAt("trying") = {}
    /\ pc = "done" => exitCode > 0

C5_Witness ==
  /\ pc = "done"
  /\ client = "none"
  /\ ret = Err(ClientBuildError)
  /\ requests = <<>>
  /\ exitCode = 1

\* C6: whenever the endpoint answered with a non-2xx status, the adapter's
\* result is the status error carrying that status and the source's name,
\* whatever became of the body.
C6_StatusErrorAlways ==
  pc = "match" =>
    LET s == FixedOrder[cur]
    IN (net[s].sent /\ ~is_success(net[s].status)) => res = Err(ApiError(s, net[s].status))

\* The CoinGecko response of this run: a 2xx whose body was read.
CoinGeckoReturned == pc = "match" /\ cur = 1
CoinGeckoBody == net["CoinGecko"].body
CoinGecko2xx == /\ net["CoinGecko"].sent
                /\ net["CoinGecko"].readable
                /\ is_success(net["CoinGecko"].status)
LacksAssetKey == CoinGeckoBody.t = "obj" /\ "solana" \notin DOMAIN CoinGeckoBody.o
LacksUsd == /\ CoinGeckoBody.t = "obj"
            /\ "solana" \in DOMAIN CoinGeckoBody.o
            /\ CoinGeckoBody.o["solana"].t = "obj"
            /\ "usd" \notin DOMAIN CoinGeckoBody.o["solana"].o
OtherEntriesNumeric ==
  \A key \in DOMAIN CoinGeckoBody.o["solana"].o : CoinGeckoBody.o["solana"].o[key].t = "num"

\* C7 as stated: a 2xx CoinGecko body without the asset key or without the
\* "usd" sub-key makes fetch_from_coingecko fail with "price not found".
C7_BothPriceNotFound ==
  (CoinGeckoReturned /\ CoinGecko2xx /\ (LacksAssetKey \/ LacksUsd)) => res = Err(PriceNotFound)

\* C7, amended: without the asset key the adapter fails with the JSON
\* "missing field" error; with a "solana" map of numbers that has no "usd" it
\* fails with "price not found"; in neither case does it return a price.
C7_MissingPriceIsError ==
  (CoinGeckoReturned /\ CoinGecko2xx) =>
    /\ LacksAssetKey => res = Err(JsonError("missing field"))
    /\ (LacksUsd /\ OtherEntriesNumeric) => res = Err(PriceNotFound)
    /\ (LacksAssetKey \/ LacksUsd) => ~res.ok

C7_Witness ==
  /\ CoinGeckoReturned
  /\ CoinGecko2xx
  /\ LacksAssetKey
  /\ res = Err(JsonError("missing field"))

\* The requests of a run: the CoinGecko URL with the key parameter exactly
\* when withKey, the other two URLs fixed; and CoinGecko's request is sent
\* whatever the environment holds.
RequestsAre(withKey) ==
  /\ \A i \in DOMAIN requests :
       LET q == requests[i]
       IN /\ q.to = "CoinGecko" =>
               q.url = (IF withKey
                          THEN <<"https://api.coingecko.com/api/v3/simple/price?ids=solana&vs_currencies=usd",
                                 "&x_cg_demo_api_key=", env.val>>
                          ELSE <<"https://api.coingecko.com/api/v3/simple/price?ids=solana&vs_currencies=usd">>)
          /\ q.to = "CoinCap" => q.url = <<"https://api.coincap.io/v2/assets/solana">>
          /\ q.to = "Binance" =>
               q.url = <<"https://api.binance.com/api/v3/ticker/price?symbol=SOLUSDT">>
  /\ (client = "built" /\ pc \notin {"main", "build", "trying", "call"}) => Invoked("CoinGecko")

\* C8 as stated: the key parameter is appended whenever the variable is set.
C8_KeyWheneverSet == RequestsAre(env.set)

\* C8, amended: the key parameter is appended when the variable is set to a
\* valid Unicode value; unset, or set to a value that is not valid Unicode,
\* the request goes to the fixed URL without it.
C8_KeyWhenReadable == RequestsAre(env.set /\ env.unicode)

C8_Witness ==
  /\ pc = "done"
  /\ env = EnvValue("CG-demo-key")
  /\ Len(requests) = 3
  /\ requests[1].url =
       <<"https://api.coingecko.com/api/v3/simple/price?ids=solana&vs_currencies=usd",
         "&x_cg_demo_api_key=", "CG-demo-key">>

\* C9: every price fetch_sol_price returns, and every price printed, is
\* non-negative.
C9_PriceNonNegative ==
  /\ ret.ok => NonNegative(ret.val)
  /\ \A i \in EventsAt("price") : log[i].text.k \in {"fin", "inf"} /\ log[i].text.c >= 0

\* A source reported as failed was attempted, with the adapter's own error as
\* the cause, and by the time a source is attempted every source before it has
\* been reported as failed.
ReportsFollowAttempts ==
  /\ \A i \in EventsAt("failed") :
       Invoked(log[i].src) /\ log[i] = Failed(log[i].src, Outcome(log[i].src).err)
  /\ \A k \in 2..Len(requests) :
       \E i \in EventsAt("failed") : log[i].src = requests[k - 1].to

\* The error messages that end a failed run: main's own and the runtime's.
FinalErrors == EventsAt("error") \cup EventsAt("report")

\* C10: failures are reported as ReportsFollowAttempts says, and a run in
\* which all three sources were attempted and failed emits exactly one final
\* error message, after the three failure reports.
C10_OneFinalError ==
  /\ ReportsFollowAttempts
  /\ (pc = "done" /\ \A s \in Sources : Invoked(s) /\ ~Outcome(s).ok) =>
       /\ Cardinality(FinalErrors) = 1
       /\ {log[i].src : i \in EventsAt("failed")} = Sources
       /\ \A i \in FinalErrors : \A j \in EventsAt("failed") : j < i

====
